---------------------------- MODULE Spec2Model ----------------------------
(***************************************************************************)
(* A model of jord's Angle (src/src/angle.rs): a signed 64-bit count of    *)
(* microarcseconds, built from and decomposed through IEEE-754 binary64    *)
(* arithmetic.                                                             *)
(*                                                                         *)
(* The model checker's integers are 32 bits wide, so the 64-bit counts and *)
(* the 53-bit significands are held as naturals in limbs of four decimal   *)
(* digits, least significant limb first, without leading zero limbs        *)
(* (<<>> is 0).  N(<<36, 0, 0>>) reads as the decimal 36 0000 0000.        *)
(***************************************************************************)
EXTENDS Integers, Sequences, FiniteSets, TLC

----------------------------------------------------------------------------
(* Naturals of any size.                                                   *)

Limb(x, i) == IF i <= Len(x) THEN x[i] ELSE 0

RECURSIVE Trim(_)
Trim(s) ==
  IF s = <<>> THEN s
  ELSE IF s[Len(s)] = 0 THEN Trim(SubSeq(s, 1, Len(s) - 1)) ELSE s

N(s) == Trim([i \in 1..Len(s) |-> s[Len(s) + 1 - i]])

RECURSIVE NAddFrom(_, _, _, _)
NAddFrom(x, y, i, c) ==
  IF i > Len(x) /\ i > Len(y)
  THEN (IF c = 0 THEN <<>> ELSE <<c>>)
  ELSE LET s == Limb(x, i) + Limb(y, i) + c
       IN  <<s % 10000>> \o NAddFrom(x, y, i + 1, s \div 10000)

NAdd(x, y) == NAddFrom(x, y, 1, 0)

RECURSIVE NCmpFrom(_, _, _)
NCmpFrom(x, y, i) ==
  IF i = 0 THEN 0
  ELSE IF x[i] < y[i] THEN -1
  ELSE IF x[i] > y[i] THEN 1
  ELSE NCmpFrom(x, y, i - 1)

(* -1, 0 or 1 as x is below, equal to or above y. *)
NCmp(x, y) ==
  IF Len(x) < Len(y) THEN -1
  ELSE IF Len(x) > Len(y) THEN 1
  ELSE NCmpFrom(x, y, Len(x))

NLt(x, y) == NCmp(x, y) < 0
NLe(x, y) == NCmp(x, y) <= 0

RECURSIVE NSubFrom(_, _, _, _)
NSubFrom(x, y, i, c) ==
  IF i > Len(x) THEN <<>>
  ELSE LET s == x[i] - Limb(y, i) - c
       IN  IF s < 0 THEN <<s + 10000>> \o NSubFrom(x, y, i + 1, 1)
           ELSE <<s>> \o NSubFrom(x, y, i + 1, 0)

(* x - y, for y <= x. *)
NSub(x, y) == Trim(NSubFrom(x, y, 1, 0))

RECURSIVE NMulSmallFrom(_, _, _, _)
NMulSmallFrom(x, k, i, c) ==
  IF i > Len(x)
  THEN (IF c = 0 THEN <<>> ELSE <<c>>)
  ELSE LET s == x[i] * k + c
       IN  <<s % 10000>> \o NMulSmallFrom(x, k, i + 1, s \div 10000)

(* x * k, for 0 <= k < 10000. *)
NMulSmall(x, k) == IF k = 0 THEN <<>> ELSE NMulSmallFrom(x, k, 1, 0)

NShift(x, n) == IF x = <<>> THEN x ELSE [i \in 1..n |-> 0] \o x

RECURSIVE NMulFrom(_, _, _)
NMulFrom(x, y, i) ==
  IF i > Len(y) THEN <<>>
  ELSE NAdd(NShift(NMulSmall(x, y[i]), i - 1), NMulFrom(x, y, i + 1))

NMul(x, y) == NMulFrom(x, y, 1)

(* The largest d in lo..hi with y * d <= r, given y * lo <= r. *)
RECURSIVE NDigit(_, _, _, _)
NDigit(r, y, lo, hi) ==
  IF lo = hi THEN lo
  ELSE LET mid == (lo + hi + 1) \div 2
       IN  IF NLe(NMulSmall(y, mid), r) THEN NDigit(r, y, mid, hi)
           ELSE NDigit(r, y, lo, mid - 1)

(* Long division, most significant limb first: r is the remainder so far and *)
(* q the quotient limbs found.                                               *)
RECURSIVE NDivFrom(_, _, _, _, _)
NDivFrom(x, y, i, r, q) ==
  IF i = 0 THEN [q |-> Trim(q), r |-> r]
  ELSE LET cur == Trim(<<x[i]>> \o r)
           d   == NDigit(cur, y, 0, 9999)
       IN  IF d = 0 THEN NDivFrom(x, y, i - 1, cur, <<0>> \o q)
           ELSE NDivFrom(x, y, i - 1, NSub(cur, NMulSmall(y, d)), <<d>> \o q)

(* Quotient and remainder of x by y, for y > 0. *)
NDivMod(x, y) == NDivFrom(x, y, Len(x), <<>>, <<>>)

NDiv(x, y) == NDivMod(x, y).q
NMod(x, y) == NDivMod(x, y).r

NIsOdd(x) == x # <<>> /\ x[1] % 2 = 1

(* A small natural (below 10000 * 10000) as limbs, and back. *)
NOfInt(k) == Trim(<<k % 10000, k \div 10000>>)
NToInt(x) == Limb(x, 1) + 10000 * Limb(x, 2)

RECURSIVE Pow2(_)
Pow2(n) ==
  IF n >= 13 THEN NMulSmall(Pow2(n - 13), 8192)
  ELSE IF n > 0 THEN NMulSmall(Pow2(n - 1), 2)
  ELSE <<1>>

----------------------------------------------------------------------------
(* IEEE-754 binary64 (Rust's f64).  A finite value is (-1)^neg * m * 2^e   *)
(* with 2^52 <= m < 2^53 (a subnormal has e = -1074 and m < 2^52; a zero   *)
(* has m = 0, e = 0 and keeps its sign).  Every operation computes the     *)
(* exact result and rounds it once, to nearest, ties to even.              *)

P39 == Pow2(39)
P52 == Pow2(52)
P53 == Pow2(53)
P63 == Pow2(63)
P64 == Pow2(64)
P66 == Pow2(66)

NaN        == [k |-> "nan", neg |-> FALSE, m |-> <<>>, e |-> 0]
Inf(neg)   == [k |-> "inf", neg |-> neg, m |-> <<>>, e |-> 0]
Fin(neg, m, e) == [k |-> "fin", neg |-> neg, m |-> m, e |-> e]
FZero(neg) == Fin(neg, <<>>, 0)

IsNaN(a)  == a.k = "nan"
IsInf(a)  == a.k = "inf"
IsFin(a)  == a.k = "fin"
IsZero(a) == a.k = "fin" /\ a.m = <<>>

(* n / d >= 2^53: halve (by doubling d) until it is below. *)
RECURSIVE ScaleDown(_, _, _)
ScaleDown(n, d, e) ==
  IF NLt(n, NMul(d, P53)) THEN [n |-> n, d |-> d, e |-> e]
  ELSE IF NLe(NMul(d, P66), n) THEN ScaleDown(n, NMulSmall(d, 8192), e + 13)
  ELSE ScaleDown(n, NMulSmall(d, 2), e + 1)

(* n / d < 2^52: double until it is at least 2^52 or e is the least exponent. *)
RECURSIVE ScaleUp(_, _, _)
ScaleUp(n, d, e) ==
  IF e <= -1074 \/ NLe(NMul(d, P52), n) THEN [n |-> n, d |-> d, e |-> e]
  ELSE IF e >= -1061 /\ NLt(n, NMul(d, P39))
       THEN ScaleUp(NMulSmall(n, 8192), d, e - 13)
  ELSE ScaleUp(NMulSmall(n, 2), d, e - 1)

ScaleUpOf(s) == ScaleUp(s.n, s.d, s.e)

(* The significand q at exponent e, once rounded: 2^53 renormalises, an *)
(* exponent above 971 is an overflow to infinity.                       *)
Pack(neg, q, e) ==
  IF q = <<>> THEN FZero(neg)
  ELSE IF q = P53 THEN (IF e + 1 > 971 THEN Inf(neg) ELSE Fin(neg, P52, e + 1))
  ELSE IF e > 971 THEN Inf(neg)
  ELSE Fin(neg, q, e)

(* Ties to even: c compares twice the remainder with the divisor. *)
TiesEvenUp(c, q) == c > 0 \/ (c = 0 /\ NIsOdd(q))

RoundQuot(neg, qr, d, e) ==
  IF TiesEvenUp(NCmp(NMulSmall(qr.r, 2), d), qr.q)
  THEN Pack(neg, NAdd(qr.q, <<1>>), e)
  ELSE Pack(neg, qr.q, e)

RoundScaled(neg, s) == RoundQuot(neg, NDivMod(s.n, s.d), s.d, s.e)

(* The binary64 nearest to (-1)^neg * (n / d) * 2^e, ties to even. *)
Round(neg, n, d, e) ==
  IF n = <<>> THEN FZero(neg)
  ELSE RoundScaled(neg, ScaleUpOf(ScaleDown(n, d, e)))

(* A float literal of the source: the decimal n / 10^k. *)
RECURSIVE Pow10(_)
Pow10(k) == IF k >= 4 THEN NShift(Pow10(k - 4), 1)
            ELSE IF k > 0 THEN NMulSmall(Pow10(k - 1), 10) ELSE <<1>>

F64Lit(neg, n, k) == Round(neg, n, Pow10(k), 0)

F64Neg(a) == IF IsNaN(a) THEN a ELSE [a EXCEPT !.neg = ~a.neg]

(* The two significands of finite a and b over their common exponent e. *)
AlignedAt(a, b, e) ==
  [a |-> NMul(a.m, Pow2(a.e - e)), b |-> NMul(b.m, Pow2(b.e - e)), e |-> e]

Aligned(a, b) == AlignedAt(a, b, IF a.e < b.e THEN a.e ELSE b.e)

(* (-1)^xneg * x + (-1)^yneg * y as a sign and a magnitude; an exact zero  *)
(* of opposite signs is +0.                                                *)
SumSigned(xneg, x, yneg, y) ==
  IF xneg = yneg THEN [neg |-> xneg, mag |-> NAdd(x, y)]
  ELSE IF NLe(y, x) THEN [neg |-> xneg /\ x # y, mag |-> NSub(x, y)]
  ELSE [neg |-> yneg, mag |-> NSub(y, x)]

RoundSum(s, e) == Round(s.neg, s.mag, <<1>>, e)

AddAligned(aneg, bneg, al) ==
  RoundSum(SumSigned(aneg, al.a, bneg, al.b), al.e)

F64Add(a, b) ==
  IF IsNaN(a) \/ IsNaN(b) THEN NaN
  ELSE IF IsInf(a) THEN (IF IsInf(b) /\ a.neg # b.neg THEN NaN ELSE a)
  ELSE IF IsInf(b) THEN b
  ELSE AddAligned(a.neg, b.neg, Aligned(a, b))

F64Mul(a, b) ==
  IF IsNaN(a) \/ IsNaN(b) THEN NaN
  ELSE IF IsInf(a) \/ IsInf(b)
       THEN (IF IsZero(a) \/ IsZero(b) THEN NaN ELSE Inf(a.neg # b.neg))
  ELSE Round(a.neg # b.neg, NMul(a.m, b.m), <<1>>, a.e + b.e)

F64Div(a, b) ==
  IF IsNaN(a) \/ IsNaN(b) THEN NaN
  ELSE IF IsInf(a) THEN (IF IsInf(b) THEN NaN ELSE Inf(a.neg # b.neg))
  ELSE IF IsInf(b) THEN FZero(a.neg # b.neg)
  ELSE IF IsZero(b) THEN (IF IsZero(a) THEN NaN ELSE Inf(a.neg # b.neg))
  ELSE Round(a.neg # b.neg, a.m, b.m, a.e - b.e)

RemAligned(neg, al) == Round(neg, NMod(al.a, al.b), <<1>>, al.e)

(* Rust's % on f64 is fmod: exact, with the sign of the dividend. *)
F64Rem(a, b) ==
  IF IsNaN(a) \/ IsNaN(b) \/ IsInf(a) \/ IsZero(b) THEN NaN
  ELSE IF IsInf(b) THEN a
  ELSE RemAligned(a.neg, Aligned(a, b))

(* The integer nearest to q + r / p, a half going away from zero. *)
HalfAway(neg, qr, p) ==
  IF NLe(p, NMulSmall(qr.r, 2))
  THEN Round(neg, NAdd(qr.q, <<1>>), <<1>>, 0)
  ELSE Round(neg, qr.q, <<1>>, 0)

RoundInt(neg, m, p) == HalfAway(neg, NDivMod(m, p), p)

(* f64::round: to the nearest integer, halves away from zero. *)
F64Round(a) ==
  IF ~IsFin(a) \/ a.e >= 0 THEN a
  ELSE IF a.e <= -54 THEN FZero(a.neg)
  ELSE RoundInt(a.neg, a.m, Pow2(-a.e))

AlignedLt(al) == NLt(al.a, al.b)

(* |a| < |b| for a, b not NaN. *)
MagLt(a, b) ==
  IF IsInf(a) THEN FALSE
  ELSE IF IsInf(b) THEN TRUE
  ELSE AlignedLt(Aligned(a, b))

F64Lt(a, b) ==
  IF IsNaN(a) \/ IsNaN(b) THEN FALSE
  ELSE IF IsZero(a) /\ IsZero(b) THEN FALSE
  ELSE IF a.neg /\ ~b.neg THEN TRUE
  ELSE IF ~a.neg /\ b.neg THEN FALSE
  ELSE IF a.neg THEN MagLt(b, a)
  ELSE MagLt(a, b)

F64Ge(a, b) == ~IsNaN(a) /\ ~IsNaN(b) /\ ~F64Lt(a, b)

(* The integer part of |a|, cut off above 2^64 (every caller saturates there). *)
TruncMag(a) ==
  IF IsInf(a) \/ a.e > 12 THEN P64
  ELSE IF a.e >= 0 THEN NMul(a.m, Pow2(a.e))
  ELSE IF a.e <= -54 THEN <<>>
  ELSE NDiv(a.m, Pow2(-a.e))

----------------------------------------------------------------------------
(* Rust's i64, as a sign and a magnitude (zero is never negative), and the *)
(* casts between the numeric types.                                        *)

I64Of(neg, mag) == [neg |-> neg /\ mag # <<>>, mag |-> mag]
I64Lit(k)       == IF k < 0 THEN I64Of(TRUE, NOfInt(-k)) ELSE I64Of(FALSE, NOfInt(k))
I64Min          == I64Of(TRUE, P63)
I64Max          == I64Of(FALSE, NSub(P63, <<1>>))

InI64(x) == IF x.neg THEN NLe(x.mag, P63) ELSE NLt(x.mag, P63)

(* The integer x + y, of any size. *)
ZAdd(x, y) ==
  IF x.neg = y.neg THEN I64Of(x.neg, NAdd(x.mag, y.mag))
  ELSE IF NLe(y.mag, x.mag) THEN I64Of(x.neg, NSub(x.mag, y.mag))
  ELSE I64Of(y.neg, NSub(y.mag, x.mag))

ZNeg(x) == I64Of(~x.neg, x.mag)

ZLt(x, y) ==
  IF x.neg /\ ~y.neg THEN TRUE
  ELSE IF ~x.neg /\ y.neg THEN FALSE
  ELSE IF x.neg THEN NLt(y.mag, x.mag)
  ELSE NLt(x.mag, y.mag)

(* The integer x reduced into i64 as two's complement does. *)
WrapU(u) ==
  IF NLt(u, P63) THEN I64Of(FALSE, u) ELSE I64Of(TRUE, NSub(P64, u))

WrapLow(neg, r) == WrapU(IF neg /\ r # <<>> THEN NSub(P64, r) ELSE r)

Wrap64(x) == WrapLow(x.neg, NMod(x.mag, P64))

(* An operation that may panic yields Done(v) or Panic. *)
Done(v) == [t |-> "ok", v |-> v]
Panic   == [t |-> "panic", v |-> <<>>]

----------------------------------------------------------------------------
VARIABLES
  build,   \* "debug": integer overflow panics; "release": it wraps
  pc,      \* "new", "made", "failed", "read", "arith", "compared"
  call,    \* the constructor call and its arguments
  made,    \* what the constructor returned
  read,    \* the last accessor call on the constructed Angle and its result
  acc,     \* the running result of the additions and subtractions
  trail,   \* the operands added (op "+") and subtracted (op "-"), in order
  cmp      \* the last comparison of the constructed Angle with another

vars == <<build, pc, call, made, read, acc, trail, cmp>>

Builds == {"debug", "release"}

(* i64::abs: the magnitude of i64::MIN is no i64. *)
I64Abs(x) ==
  IF x = I64Min THEN (IF build = "debug" THEN Panic ELSE Done(I64Min))
  ELSE Done(I64Of(FALSE, x.mag))

(* i64 + i64 and i64 - i64. *)
Checked(z) ==
  IF InI64(z) THEN Done(z)
  ELSE IF build = "debug" THEN Panic ELSE Done(Wrap64(z))

I64Add(x, y) == Checked(ZAdd(x, y))

I64Sub(x, y) == I64Add(x, ZNeg(y))

(* -d on an i64 d that is never i64::MIN where the source negates. *)
I64Neg(x) == ZNeg(x)

I64Lt(x, y) == ZLt(x, y)

(* i64 as f64. *)
I64ToF64(x) == Round(x.neg, x.mag, <<1>>, 0)

SatI64(neg, mag) ==
  IF NLe(P63, mag) THEN (IF neg THEN I64Min ELSE I64Max) ELSE I64Of(neg, mag)

(* f64 as i64: toward zero, saturating, NaN to 0. *)
F64ToI64(a) == IF IsNaN(a) THEN I64Lit(0) ELSE SatI64(a.neg, TruncMag(a))

SatU64(mag) == IF NLe(P64, mag) THEN NSub(P64, <<1>>) ELSE mag

(* f64 as u64: toward zero, saturating, NaN to 0. *)
F64ToU64(a) == IF IsNaN(a) \/ a.neg THEN <<>> ELSE SatU64(TruncMag(a))

(* u64 as i64, as u8, as u16: the low bits. *)
U64ToI64(n) == Wrap64(I64Of(FALSE, n))
U64ToU8(n)  == NToInt(NMod(n, <<256>>))
U64ToU16(n) == NToInt(NMod(n, <<5536, 6>>))

----------------------------------------------------------------------------
(* Angle.                                                                  *)

DG_TO_UAS == F64Lit(FALSE, N(<<36, 0, 0>>), 0)
PI        == Fin(FALSE, N(<<7074, 2377, 5202, 8440>>), -51)
F0        == FZero(FALSE)
F60       == F64Lit(FALSE, <<60>>, 0)
F180      == F64Lit(FALSE, <<180>>, 0)
F360      == F64Lit(FALSE, <<360>>, 0)
F1000     == F64Lit(FALSE, <<1000>>, 0)
F3600     == F64Lit(FALSE, <<3600>>, 0)
F1E6      == F64Lit(FALSE, N(<<100, 0>>), 0)
F6E7      == F64Lit(FALSE, N(<<6000, 0>>), 0)

Angle(uas) == [microarcseconds |-> uas]

zero == Angle(I64Lit(0))

(* from_decimal_degrees without the .round(): the cast alone truncates. *)
from_decimal_degrees_truncating(dec) ==
  Angle(F64ToI64(F64Mul(dec, DG_TO_UAS)))

from_decimal_degrees(dec) ==
  LET uas == F64ToI64(F64Round(F64Mul(dec, DG_TO_UAS)))
  IN  Angle(uas)

Ok(angle)  == [t |-> "Ok", angle |-> angle, err |-> "none"]
Err(e)     == [t |-> "Err", angle |-> zero, err |-> e]
Panicked   == [t |-> "panic", angle |-> zero, err |-> "none"]

(* from_dms with the two range checks in the other order. *)
from_dms_seconds_first(degs, mins, secs) ==
  IF F64Lt(secs, F0) \/ F64Ge(secs, F60)
  THEN Err("InvalidArcSeconds")
  ELSE IF I64Lt(mins, I64Lit(0)) \/ I64Lt(I64Lit(59), mins)
  THEN Err("InvalidArcMinutes")
  ELSE LET ab == I64Abs(degs)
       IN  IF ab.t = "panic" THEN Panicked
           ELSE LET d == F64Add(F64Add(I64ToF64(ab.v),
                                       F64Div(I64ToF64(mins), F60)),
                                F64Div(secs, F3600))
                IN  IF I64Lt(degs, I64Lit(0))
                    THEN Ok(from_decimal_degrees(F64Neg(d)))
                    ELSE Ok(from_decimal_degrees(d))

from_dms(degs, mins, secs) ==
  IF I64Lt(mins, I64Lit(0)) \/ I64Lt(I64Lit(59), mins)
  THEN Err("InvalidArcMinutes")
  ELSE IF F64Lt(secs, F0) \/ F64Ge(secs, F60)
  THEN Err("InvalidArcSeconds")
  ELSE LET ab == I64Abs(degs)
       IN  IF ab.t = "panic" THEN Panicked
           ELSE LET d == F64Add(F64Add(I64ToF64(ab.v),
                                       F64Div(I64ToF64(mins), F60)),
                                F64Div(secs, F3600))
                IN  IF I64Lt(degs, I64Lit(0))
                    THEN Ok(from_decimal_degrees(F64Neg(d)))
                    ELSE Ok(from_decimal_degrees(d))

from_radians(rads) == from_decimal_degrees(F64Mul(F64Div(rads, PI), F180))

microarcseconds(self) == self.microarcseconds

(* field rounding the quotient's remainder instead of truncating it. *)
field_rounding(self, div, modu) ==
  LET ab == I64Abs(self.microarcseconds)
  IN  IF ab.t = "panic" THEN Panic
      ELSE Done(F64ToU64(F64Round(F64Rem(F64Div(I64ToF64(ab.v), div), modu))))

field(self, div, modu) ==
  LET ab == I64Abs(self.microarcseconds)
  IN  IF ab.t = "panic" THEN Panic
      ELSE Done(F64ToU64(F64Rem(F64Div(I64ToF64(ab.v), div), modu)))

(* whole_degrees with the modulus of the minutes and seconds fields. *)
whole_degrees_mod_60(self) ==
  LET f == field(self, DG_TO_UAS, F60)
  IN  IF f.t = "panic" THEN Panic
      ELSE LET d == U64ToI64(f.v)
           IN  IF I64Lt(self.microarcseconds, I64Lit(0))
               THEN Done(I64Neg(d))
               ELSE Done(d)

whole_degrees(self) ==
  LET f == field(self, DG_TO_UAS, F360)
  IN  IF f.t = "panic" THEN Panic
      ELSE LET d == U64ToI64(f.v)
           IN  IF I64Lt(self.microarcseconds, I64Lit(0))
               THEN Done(I64Neg(d))
               ELSE Done(d)

arcminutes(self) ==
  LET f == field(self, F6E7, F60)
  IN  IF f.t = "panic" THEN Panic ELSE Done(U64ToU8(f.v))

arcseconds(self) ==
  LET f == field(self, F1E6, F60)
  IN  IF f.t = "panic" THEN Panic ELSE Done(U64ToU8(f.v))

arcmilliseconds(self) ==
  LET f == field(self, F1000, F1000)
  IN  IF f.t = "panic" THEN Panic ELSE Done(U64ToU16(f.v))

(* from_resolution_unit taking the amount through f64. *)
from_resolution_unit_through_f64(amount) == Angle(F64ToI64(I64ToF64(amount)))

from_resolution_unit(amount) == Angle(amount)

as_resolution_unit(self) == self.microarcseconds

(* impl_measure!: Add and Sub work on the resolution units. *)
AngleAdd(x, y) ==
  LET z == I64Add(as_resolution_unit(x), as_resolution_unit(y))
  IN  IF z.t = "panic" THEN Panic ELSE Done(from_resolution_unit(z.v))

AngleSub(x, y) ==
  LET z == I64Sub(as_resolution_unit(x), as_resolution_unit(y))
  IN  IF z.t = "panic" THEN Panic ELSE Done(from_resolution_unit(z.v))

(* #[derive(PartialEq, PartialOrd)] on the one field. *)
AngleEq(x, y) == x.microarcseconds = y.microarcseconds
(* An ordering by magnitude, blind to the sign. *)
AngleLt_by_magnitude(x, y) == NLt(x.microarcseconds.mag, y.microarcseconds.mag)

AngleLt(x, y) == I64Lt(x.microarcseconds, y.microarcseconds)

----------------------------------------------------------------------------
(* The calls the model makes.  Z and D write an i64 and a decimal float    *)
(* literal in groups of four decimal digits.                               *)

Z(neg, groups)    == I64Of(neg, N(groups))
D(neg, groups, k) == F64Lit(neg, N(groups), k)

MaxOps == 2

(* ms is the whole number of milliseconds a seconds argument stands for, or *)
(* -1 when the argument is not written as one.                              *)
Call(fn, degs, mins, f, unit, ms) ==
  [fn |-> fn, degs |-> degs, mins |-> mins, f |-> f, unit |-> unit, ms |-> ms]

Secs(f)       == [f |-> f, ms |-> -1]
MilliSecs(ms) == [f |-> F64Lit(FALSE, NOfInt(ms), 3), ms |-> ms]

Units ==
  { I64Lit(0), I64Lit(1), I64Lit(-1), I64Lit(999), I64Lit(1000),
    Z(FALSE, <<35, 9999, 9999>>),             \* one short of a degree
    Z(FALSE, <<36, 0, 0>>),                   \* 1 degree
    Z(TRUE,  <<36, 0, 0>>),
    Z(FALSE, <<5576, 9410, 8000>>),           \* 154 54' 54.108"
    Z(TRUE,  <<5576, 9400, 0>>),              \* -154 54' 54"
    Z(FALSE, <<1, 2959, 9999, 9999>>),        \* one short of 360 degrees
    Z(FALSE, <<1, 2960, 0, 0>>),              \* 360 degrees
    Z(FALSE, <<1, 4400, 0, 0>>),              \* 400 degrees
    Z(TRUE,  <<1, 4400, 0, 0>>),
    Z(FALSE, <<9007, 1963, 9999, 9999>>),     \* 2501999 degrees, less one
    Z(FALSE, <<9007, 1992, 1999, 9999>>),     \* below 2^53, minutes about to carry
    Z(FALSE, <<9007, 1992, 5399, 9999>>),     \* below 2^53, seconds about to carry
    Z(TRUE,  <<9007, 1992, 5473, 9999>>),     \* above -2^53, milliseconds about to carry
    I64Of(FALSE, P53),
    Z(FALSE, <<9007, 1992, 5474, 1999>>),     \* above 2^53: as f64 rounds it up
    Z(FALSE, <<922, 3372, 367, 9999, 9999>>), \* 2562047788 degrees, less one
    I64Max, ZNeg(I64Max), I64Min }

Decimals ==
  { F0, FZero(TRUE), NaN, Inf(FALSE), Inf(TRUE),
    D(FALSE, <<1>>, 0), D(TRUE, <<1>>, 0), D(FALSE, <<60>>, 0), D(FALSE, <<400>>, 0),
    D(FALSE, <<5999, 9999, 9999>>, 10),       \* 59.9999999999
    D(FALSE, <<599, 9999, 9998>>, 9),         \* 59.999999998
    D(FALSE, <<15, 4915, 300>>, 7),           \* 154.9150300
    D(TRUE,  <<15, 4915>>, 3),                \* -154.915
    D(FALSE, <<10, 5125>>, 4),                \* 10.5125
    Fin(FALSE, P52, -63),                     \* 2^-11: scales to 1757812.5
    Fin(TRUE, P52, -63),
    Fin(FALSE, NMulSmall(Pow2(51), 3), -62),  \* 3 * 2^-11: scales to 5273437.5
    D(FALSE, <<1>>, 10),                      \* 0.36 microarcseconds
    D(FALSE, <<15>>, 11),                     \* 0.54 microarcseconds
    F64Div(D(FALSE, <<1>>, 0), D(FALSE, <<360, 0>>, 0)),     \* 1.0 / 3600000.0
    F64Div(D(FALSE, <<1000>>, 0), D(FALSE, <<360, 0>>, 0)),
    F64Div(D(FALSE, <<6, 0>>, 0), D(FALSE, <<360, 0>>, 0)),
    D(FALSE, <<100, 0, 0>>, 0),               \* 1e10: beyond i64 once scaled
    D(TRUE,  <<100, 0, 0>>, 0) }


Radians == { F0, PI, F64Neg(PI), D(FALSE, <<1>>, 0), NaN }

DmsDegrees == { I64Lit(0), I64Lit(10), I64Lit(-154), I64Lit(359), I64Lit(-359) }

(* Degrees that scale beyond i64, and the i64 with no absolute value. *)
DmsFarDegrees == { Z(FALSE, <<30, 0, 0>>), I64Max, I64Min }

DmsMinutes ==
  { I64Lit(-1), I64Lit(0), I64Lit(3), I64Lit(30), I64Lit(59), I64Lit(60) }

DmsSeconds ==
  { Secs(FZero(TRUE)), Secs(NaN),
    Secs(D(FALSE, <<5999, 9999>>, 6)),        \* 59.999999
    Secs(D(FALSE, <<60>>, 0)),
    Secs(D(TRUE,  <<1>>, 3)),                 \* -0.001
    MilliSecs(0), MilliSecs(1), MilliSecs(42500), MilliSecs(45000),
    MilliSecs(54108), MilliSecs(59999) }

DmsFarMinutes == { I64Lit(0), I64Lit(60) }
DmsFarSeconds == { MilliSecs(0), MilliSecs(59999), Secs(D(FALSE, <<60>>, 0)) }

Calls ==
  { Call("zero", I64Lit(0), I64Lit(0), F0, I64Lit(0), -1) }
  \cup { Call("from_resolution_unit", I64Lit(0), I64Lit(0), F0, u, -1) : u \in Units }
  \cup { Call("from_decimal_degrees", I64Lit(0), I64Lit(0), d, I64Lit(0), -1) :
           d \in Decimals }
  \cup { Call("from_radians", I64Lit(0), I64Lit(0), r, I64Lit(0), -1) : r \in Radians }
  \cup { Call("from_dms", d, m, s.f, I64Lit(0), s.ms) :
           d \in DmsDegrees, m \in DmsMinutes, s \in DmsSeconds }
  \cup { Call("from_dms", d, m, s.f, I64Lit(0), s.ms) :
           d \in DmsFarDegrees, m \in DmsFarMinutes, s \in DmsFarSeconds }

(* The Angles added and subtracted, and the Angles compared with. *)
Operands == { Angle(I64Lit(1)), Angle(I64Max) }

Others == { Angle(I64Lit(1)), Angle(Z(TRUE, <<36, 0, 0>>)), Angle(I64Max) }

----------------------------------------------------------------------------
NoResult == [t |-> "none", angle |-> zero, err |-> "none"]
NoRead   == [fn |-> "none", t |-> "ok", deg |-> I64Lit(0), n |-> 0]
NoCmp    == [b |-> zero, lt |-> FALSE, eq |-> FALSE, gt |-> FALSE]

Init ==
  /\ build \in Builds
  /\ call \in Calls
  /\ pc = "new"
  /\ made = NoResult
  /\ read = NoRead
  /\ acc = Done(zero)
  /\ trail = <<>>
  /\ cmp = NoCmp

Return(r) ==
  /\ made' = r
  /\ pc' = IF r.t = "Ok" THEN "made" ELSE "failed"
  /\ acc' = Done(r.angle)
  /\ UNCHANGED <<build, call, read, trail, cmp>>

Zero ==
  /\ pc = "new" /\ call.fn = "zero"
  /\ Return(Ok(zero))

FromDecimalDegrees ==
  /\ pc = "new" /\ call.fn = "from_decimal_degrees"
  /\ Return(Ok(from_decimal_degrees(call.f)))

FromRadians ==
  /\ pc = "new" /\ call.fn = "from_radians"
  /\ Return(Ok(from_radians(call.f)))

FromDms ==
  /\ pc = "new" /\ call.fn = "from_dms"
  /\ Return(from_dms(call.degs, call.mins, call.f))

FromResolutionUnit ==
  /\ pc = "new" /\ call.fn = "from_resolution_unit"
  /\ Return(Ok(from_resolution_unit(call.unit)))

Read(fn, r, isDeg) ==
  /\ pc = "made"
  /\ read' = [fn |-> fn, t |-> r.t,
              deg |-> IF isDeg /\ r.t = "ok" THEN r.v ELSE I64Lit(0),
              n   |-> IF ~isDeg /\ r.t = "ok" THEN r.v ELSE 0]
  /\ pc' = "read"
  /\ UNCHANGED <<build, call, made, acc, trail, cmp>>

WholeDegrees    == Read("whole_degrees", whole_degrees(made.angle), TRUE)
Arcminutes      == Read("arcminutes", arcminutes(made.angle), FALSE)
Arcseconds      == Read("arcseconds", arcseconds(made.angle), FALSE)
Arcmilliseconds == Read("arcmilliseconds", arcmilliseconds(made.angle), FALSE)

Add ==
  /\ pc \in {"made", "arith"} /\ acc.t = "ok" /\ Len(trail) < MaxOps
  /\ \E b \in Operands :
       /\ acc' = AngleAdd(acc.v, b)
       /\ trail' = Append(trail, [op |-> "+", b |-> b])
  /\ pc' = "arith"
  /\ UNCHANGED <<build, call, made, read, cmp>>

Sub ==
  /\ pc \in {"made", "arith"} /\ acc.t = "ok" /\ Len(trail) < MaxOps
  /\ \E b \in Operands :
       /\ acc' = AngleSub(acc.v, b)
       /\ trail' = Append(trail, [op |-> "-", b |-> b])
  /\ pc' = "arith"
  /\ UNCHANGED <<build, call, made, read, cmp>>

Compare ==
  /\ pc = "made"
  /\ \E b \in Others \cup {made.angle} :
       cmp' = [b |-> b, lt |-> AngleLt(made.angle, b),
               eq |-> AngleEq(made.angle, b), gt |-> AngleLt(b, made.angle)]
  /\ pc' = "compared"
  /\ UNCHANGED <<build, call, made, read, acc, trail>>

Next ==
  \/ Zero \/ FromDecimalDegrees \/ FromRadians \/ FromDms \/ FromResolutionUnit
  \/ WholeDegrees \/ Arcminutes \/ Arcseconds \/ Arcmilliseconds
  \/ Add \/ Sub \/ Compare

Spec == Init /\ [][Next]_vars

----------------------------------------------------------------------------
(* What the claims speak of, in exact integer arithmetic on the count.     *)

UasPerDegree == N(<<36, 0, 0>>)
UasPerMinute == N(<<6000, 0>>)
UasPerSecond == N(<<100, 0>>)
UasPerMilli  == <<1000>>

Count == made.angle.microarcseconds

(* (mag div unit) mod modu, as the integer it is. *)
ExactField(mag, unit, modu) == NToInt(NMod(NDiv(mag, unit), modu))

(* The counts an f64 holds exactly. *)
ExactInF64(x) == NLe(x.mag, P53)

JustRead(fn) == pc = "read" /\ read.fn = fn

C2_FieldsAreIntegerQuotients ==
  /\ JustRead("arcminutes")
       => read.t = "ok" /\ read.n = ExactField(Count.mag, UasPerMinute, <<60>>)
  /\ JustRead("arcseconds")
       => read.t = "ok" /\ read.n = ExactField(Count.mag, UasPerSecond, <<60>>)
  /\ JustRead("arcmilliseconds")
       => read.t = "ok" /\ read.n = ExactField(Count.mag, UasPerMilli, <<1000>>)

(* C9: no constructor and no accessor panics or overflows, whatever the    *)
(* integer it is given: the absolute value each of them takes is a         *)
(* non-negative i64, also for i64::MIN.                                    *)
AbsIsSound(x) == I64Abs(x).t = "ok" /\ ~I64Abs(x).v.neg

C9_NoOverflowNoPanic ==
  /\ made.t # "panic"
  /\ read.t # "panic"
  /\ pc = "read" => AbsIsSound(Count)
  /\ (call.fn = "from_dms" /\ made.t = "Ok") => AbsIsSound(call.degs)

----------------------------------------------------------------------------
(* Additions and subtractions.                                             *)

Signed(step) ==
  IF step.op = "+" THEN step.b.microarcseconds ELSE ZNeg(step.b.microarcseconds)

(* The integer a + / - the first i operands of the trail, of any size. *)
RECURSIVE ExactSum(_, _, _)
ExactSum(a, tr, i) ==
  IF i = 0 THEN a ELSE ZAdd(ExactSum(a, tr, i - 1), Signed(tr[i]))

AllInRange(a, tr) == \A i \in 1..Len(tr) : InI64(ExactSum(a, tr, i))

(* The trail ends in + b, - b for one b. *)
EndsAddThenSub(tr) ==
  /\ Len(tr) >= 2
  /\ tr[Len(tr) - 1].op = "+"
  /\ tr[Len(tr)].op = "-"
  /\ tr[Len(tr) - 1].b = tr[Len(tr)].b

----------------------------------------------------------------------------
(* from_dms.                                                               *)

(* The constructor fn has just returned; what it was called with and    *)
(* what it returned stay as they are from then on.                      *)
Returned(fn) == call.fn = fn /\ pc \in {"made", "failed"}

MinutesOutside(mins) == mins.neg \/ NLt(<<59>>, mins.mag)

(* A number below 0 or at least 60; NaN is no number. *)
SecondsOutside(secs) ==
  /\ ~IsNaN(secs)
  /\ \/ secs.neg /\ ~IsZero(secs)
     \/ IsInf(secs)
     \/ NLe(<<60>>, TruncMag(secs))

SecondsInside(secs) == ~IsNaN(secs) /\ ~SecondsOutside(secs)

(* C4: from_dms fails with InvalidArcMinutes when the minutes are outside  *)
(* [0, 59], with InvalidArcSeconds when the seconds are outside [0, 60),   *)
(* and succeeds for every degrees value when both are inside.              *)
C4_FromDmsTotalOnDegrees ==
  Returned("from_dms")
    => /\ MinutesOutside(call.mins)
            => made.t = "Err" /\ made.err = "InvalidArcMinutes"
       /\ (~MinutesOutside(call.mins) /\ SecondsOutside(call.f))
            => made.t = "Err" /\ made.err = "InvalidArcSeconds"
       /\ (~MinutesOutside(call.mins) /\ SecondsInside(call.f))
            => made.t = "Ok"

(* |degrees| + minutes / 60 + seconds / 3600 in f64, |degrees| being the   *)
(* magnitude of the integer.                                               *)
DmsMagnitude(degs, mins, secs) ==
  F64Add(F64Add(Round(FALSE, degs.mag, <<1>>, 0), F64Div(I64ToF64(mins), F60)),
         F64Div(secs, F3600))

WithSignOf(degs, v) == IF degs.neg THEN F64Neg(v) ELSE v

NegatedAngle(r) == Angle(ZNeg(r.angle.microarcseconds))

(* C5: with minutes and seconds in range, from_dms is from_decimal_degrees *)
(* of s * (|degrees| + minutes / 60 + seconds / 3600), s being -1 for      *)
(* negative degrees and +1 otherwise; zero degrees never give a negative   *)
(* Angle, and for d > 0 from_dms(-d, m, s) is the negation of              *)
(* from_dms(d, m, s).                                                      *)
C5_FromDmsSignedSum ==
  (Returned("from_dms")
     /\ ~MinutesOutside(call.mins) /\ SecondsInside(call.f))
    => /\ made.t = "Ok"
       /\ made.angle = from_decimal_degrees(
            WithSignOf(call.degs, DmsMagnitude(call.degs, call.mins, call.f)))
       /\ call.degs.mag = <<>> => ~Count.neg
       /\ (~call.degs.neg /\ call.degs.mag # <<>>)
            => /\ from_dms(ZNeg(call.degs), call.mins, call.f).t = "Ok"
               /\ from_dms(ZNeg(call.degs), call.mins, call.f).angle
                    = NegatedAngle(made)

(* The error a call returns, from its minutes and seconds alone. *)
DmsErrorOf(mins, secs) ==
  IF MinutesOutside(mins) THEN "InvalidArcMinutes"
  ELSE IF SecondsOutside(secs) THEN "InvalidArcSeconds"
  ELSE "none"

(* C10: the minutes are checked before the seconds, so minutes out of      *)
(* range give InvalidArcMinutes whatever the seconds are and               *)
(* InvalidArcSeconds comes only with valid minutes; whether from_dms       *)
(* returns an error, and which, is decided by minutes and seconds alone,   *)
(* never by the degrees.                                                   *)
C10_MinutesBeforeSeconds ==
  Returned("from_dms")
    => /\ made.err = DmsErrorOf(call.mins, call.f)
       /\ made.t = "Err" <=> made.err # "none"
       /\ made.err = "InvalidArcSeconds" => ~MinutesOutside(call.mins)

(* from_dms(i64::MIN, 60, 60.0): both out of range, the minutes reported. *)
C10_Witness ==
  /\ Returned("from_dms")
  /\ call.degs = I64Min
  /\ call.mins = I64Lit(60)
  /\ SecondsOutside(call.f)
  /\ made.t = "Err" /\ made.err = "InvalidArcMinutes"

----------------------------------------------------------------------------
(* from_decimal_degrees.                                                   *)

(* The integer nearest to the finite f64 p, a half going away from zero,   *)
(* by exact integer arithmetic on its significand.                         *)
NearestAway(p) ==
  IF p.e >= 0 THEN I64Of(p.neg, NMul(p.m, Pow2(p.e)))
  ELSE I64Of(p.neg, NDiv(NAdd(NMulSmall(p.m, 2), Pow2(-p.e)), Pow2(1 - p.e)))

Scaled(dec) == F64Mul(dec, DG_TO_UAS)

FitsI64(p) == IsFin(p) /\ NLt(TruncMag(p), P63)

Dec60           == D(FALSE, <<60>>, 0)
Dec59_9999999999 == D(FALSE, <<5999, 9999, 9999>>, 10)
Dec59_999999998  == D(FALSE, <<599, 9999, 9998>>, 9)
Dec1            == D(FALSE, <<1>>, 0)
SixtyDegrees    == Z(FALSE, <<2160, 0, 0>>)

(* C6: from_decimal_degrees(d) stores the integer nearest to the f64       *)
(* d * 3,600,000,000, a half rounding away from zero, whenever that        *)
(* product is finite and within i64; 60.0 and 59.9999999999 give the same  *)
(* count, 59.999999998 another, and 1.0 gives 3,600,000,000.               *)
C6_RoundsHalfAwayFromZero ==
  Returned("from_decimal_degrees")
    => /\ FitsI64(Scaled(call.f)) => Count = NearestAway(Scaled(call.f))
       /\ call.f \in {Dec60, Dec59_9999999999} => Count = SixtyDegrees
       /\ call.f = Dec59_999999998 => Count # SixtyDegrees
       /\ call.f = Dec1 => Count = I64Of(FALSE, UasPerDegree)

(* -2^-11 degrees scale to -1757812.5 and are stored as -1757813. *)
C6_Witness ==
  /\ Returned("from_decimal_degrees")
  /\ call.f = Fin(TRUE, P52, -63)
  /\ Scaled(call.f) = Fin(TRUE, N(<<7549, 7472, 0, 0>>), -32)
  /\ Count = Z(TRUE, <<175, 7813>>)

----------------------------------------------------------------------------
(* C7: for degrees in [-359, 359], minutes in [0, 59] and seconds a whole  *)
(* number of milliseconds in [0, 60), from_dms succeeds and the Angle it   *)
(* makes reads back as the degrees, the minutes, the whole seconds and     *)
(* the milliseconds of the fractional second it was made from.             *)
InDecompositionDomain ==
  /\ call.fn = "from_dms"
  /\ NLe(call.degs.mag, <<359>>)
  /\ ~MinutesOutside(call.mins)
  /\ call.ms >= 0 /\ call.ms < 60000

C7_DecompositionInvertsFromDms ==
  (InDecompositionDomain /\ pc # "new")
    => /\ made.t = "Ok"
       /\ pc = "read"
            => /\ read.t = "ok"
               /\ read.fn = "whole_degrees" => read.deg = call.degs
               /\ read.fn = "arcminutes" => read.n = NToInt(call.mins.mag)
               /\ read.fn = "arcseconds" => read.n = call.ms \div 1000
               /\ read.fn = "arcmilliseconds" => read.n = call.ms % 1000

(* from_dms(-154, 59, 59.999) reads 999 milliseconds. *)
C7_Witness ==
  /\ InDecompositionDomain
  /\ call.degs = I64Lit(-154) /\ call.mins = I64Lit(59) /\ call.ms = 59999
  /\ JustRead("arcmilliseconds")
  /\ read.t = "ok" /\ read.n = 999

----------------------------------------------------------------------------
(* C8: two Angles compare as their counts do, as signed integers, and are  *)
(* equal exactly when the counts are, whichever constructors made them.    *)
CountDifference == ZAdd(cmp.b.microarcseconds, ZNeg(Count))

C8_OrderedByCount ==
  pc = "compared"
    => /\ cmp.lt <=> (~CountDifference.neg /\ CountDifference.mag # <<>>)
       /\ cmp.eq <=> CountDifference.mag = <<>>
       /\ cmp.gt <=> CountDifference.neg
       /\ cmp.eq <=> made.angle = cmp.b

(* from_dms(-154, m, 54.108) is below the Angle of -1 degree. *)
C8_Witness ==
  /\ pc = "compared"
  /\ call.fn = "from_dms" /\ call.degs = I64Lit(-154) /\ call.ms = 54108
  /\ cmp.b = Angle(Z(TRUE, <<36, 0, 0>>))
  /\ cmp.lt /\ ~cmp.eq /\ ~cmp.gt

=============================================================================
